---- MODULE Spec2Model ----
(***************************************************************************)
(* The Android packaging scripts of android/build/util: find.py,           *)
(* process_resources.py, javac.py and signer.py.  Each run of a script is  *)
(* a sequential program that prepares a command, blocks on the external    *)
(* tool, and goes on (or raises) according to the tool's exit status.  The *)
(* scripts share nothing but the filesystem, which outlives a run.         *)
(***************************************************************************)
EXTENDS Integers, Sequences, FiniteSets, TLC

\* Number of script runs one behaviour executes on the same filesystem.
MaxRuns == 2

(***************************************************************************)
(* The filesystem.  A path is the sequence of its components below the     *)
(* build root; Root is the empty sequence.                                 *)
(***************************************************************************)
Root == <<>>

\* The paths the scripts and the tools can touch.
Paths ==
  { Root,
    <<"flat">>, <<"flat", "a.flat">>, <<"flat", "v">>, <<"flat", "v", "b.flat">>,
    <<"rjava">>, <<"rjava", "R.java">>,
    <<"rjava", "com">>, <<"rjava", "com", "R.java">>,
    <<"rjava", "org">>, <<"rjava", "org", "R.java">>,
    <<"res">>, <<"res", "res.apk">>,
    <<"classes">>, <<"classes", "A.class">>,
    <<"classes", "p">>, <<"classes", "p", "B.class">>,
    <<"dex">>, <<"dex", "classes.dex">>,
    <<"unsigned">>, <<"unsigned", "app.apk">>,
    <<"signed">>, <<"signed", "app.apk">> }

\* Directory listings are produced in this order.
Listing ==
  << <<"classes">>, <<"classes", "A.class">>, <<"classes", "p">>,
     <<"classes", "p", "B.class">>,
     <<"dex">>, <<"dex", "classes.dex">>,
     <<"flat">>, <<"flat", "a.flat">>, <<"flat", "v">>, <<"flat", "v", "b.flat">>,
     <<"res">>, <<"res", "res.apk">>,
     <<"rjava">>, <<"rjava", "R.java">>,
     <<"rjava", "com">>, <<"rjava", "com", "R.java">>,
     <<"rjava", "org">>, <<"rjava", "org", "R.java">>,
     <<"signed">>, <<"signed", "app.apk">>,
     <<"unsigned">>, <<"unsigned", "app.apk">> >>

\* The characters of a file name, cut at the dots.
Tokens(name) ==
  CASE name = "a.flat"      -> <<"a", ".", "flat">>
    [] name = "b.flat"      -> <<"b", ".", "flat">>
    [] name = "R.java"      -> <<"R", ".", "java">>
    [] name = "res.apk"     -> <<"res", ".", "apk">>
    [] name = "app.apk"     -> <<"app", ".", "apk">>
    [] name = "A.class"     -> <<"A", ".", "class">>
    [] name = "B.class"     -> <<"B", ".", "class">>
    [] name = "classes.dex" -> <<"classes", ".", "dex">>
    [] OTHER                -> <<name>>

\* pathlib: path.parent and path.name.
Parent(p) == IF p = Root THEN Root ELSE SubSeq(p, 1, Len(p) - 1)
Name(p) == p[Len(p)]

\* The proper ancestors of p, and whether d is one of them.
IsUnder(p, d) == Len(d) < Len(p) /\ SubSeq(p, 1, Len(d)) = d

\* What lies at a path: nothing, a directory, or a regular file; the data of
\* an APK is the set of its archive members ("res", "dex", "sig", and "old"
\* in an APK left by an earlier build).
NoEntry == [kind |-> "none", data |-> {}]
DirEntry == [kind |-> "dir", data |-> {}]
FileEntry(data) == [kind |-> "file", data |-> data]

IsFile(f, p) == f[p].kind = "file"
IsDir(f, p) == f[p].kind = "dir"
Exists(f, p) == f[p].kind # "none"

(***************************************************************************)
(* fnmatch, as pathlib's rglob applies it to one name: "*" matches any     *)
(* run of characters, anything else matches itself.                        *)
(***************************************************************************)
RECURSIVE Match(_, _)
Match(n, pat) ==
  IF pat = <<>> THEN n = <<>>
  ELSE IF Head(pat) = "*"
    THEN Match(n, Tail(pat)) \/ (n # <<>> /\ Match(Tail(n), pat))
    ELSE n # <<>> /\ Head(n) = Head(pat) /\ Match(Tail(n), Tail(pat))

PatAll == <<"*">>
PatFlat == <<"*", ".", "flat">>
PatClass == <<"*", ".", "class">>
PatDex == <<"*", ".", "dex">>
PatRjava == <<"R", ".", "java">>

\* The entries of directory d, in listing order.
Children(f, d) ==
  SelectSeq(Listing, LAMBDA p : Parent(p) = d /\ Exists(f, p))

\* Path.rglob(pattern): every entry below path whose name matches, found by
\* walking the directories; nothing when path is no directory.
RECURSIVE Rglob(_, _, _)
RECURSIVE RglobEach(_, _, _)
RglobEach(f, cs, pat) ==
  IF cs = <<>> THEN <<>>
  ELSE LET c == Head(cs)
       IN  (IF Match(Tokens(Name(c)), pat) THEN <<c>> ELSE <<>>)
           \o Rglob(f, c, pat)
           \o RglobEach(f, Tail(cs), pat)
Rglob(f, path, pat) ==
  IF IsDir(f, path) THEN RglobEach(f, Children(f, path), pat) ELSE <<>>

\* A path argument as Python sees it: a list of paths, or one path.
PathList(ps) == [islist |-> TRUE, v |-> ps]
OnePath(p) == [islist |-> FALSE, v |-> p]

\* Fault: the loop of find_files without its is_file test.
RECURSIVE RglobAll(_, _, _)
RglobAll(f, paths, pat) ==
  IF paths = <<>> THEN <<>>
  ELSE Rglob(f, Head(paths), pat) \o RglobAll(f, Tail(paths), pat)

\* The loop of find_files over a list of paths.
RECURSIVE FindIn(_, _, _)
FindIn(f, paths, pat) ==
  IF paths = <<>> THEN <<>>
  ELSE SelectSeq(Rglob(f, Head(paths), pat), LAMBDA p : IsFile(f, p))
       \o FindIn(f, Tail(paths), pat)

\* find.find_files(paths, pattern).
find_files(f, paths, pat) ==
  FindIn(f, IF paths.islist THEN paths.v ELSE <<paths.v>>, pat)

Range(s) == { s[i] : i \in 1..Len(s) }

(***************************************************************************)
(* os.makedirs(d, exist_ok=True), shutil.copy and shutil.move.             *)
(***************************************************************************)
\* makedirs raises when d or one of its ancestors is a file.
MakedirsOk(f, d) ==
  \A p \in Paths : (p = d \/ IsUnder(d, p)) => ~IsFile(f, p)

\* Fault: a makedirs that creates nothing.
NoMakedirs(f, d) == f

Makedirs(f, d) ==
  [p \in Paths |->
     IF (p = d \/ IsUnder(d, p)) /\ ~Exists(f, p) THEN DirEntry ELSE f[p]]

\* shutil.copy(src, dst) raises when src is no file or dst has no directory
\* to be created in.  (No destination the scripts name is ever a directory.)
CopyOk(f, src, dst) == IsFile(f, src) /\ IsDir(f, Parent(dst))

\* shutil.move(src, dst) onto a path that is no directory: os.rename.
ShutilMove(f, src, dst) ==
  IF src = dst THEN f
  ELSE [f EXCEPT ![dst] = f[src], ![src] = NoEntry]

\* Fault: a copy that takes the source away.
CopyAsMove(f, src, dst) == ShutilMove(f, src, dst)

ShutilCopy(f, src, dst) == [f EXCEPT ![dst] = FileEntry(f[src].data)]

(***************************************************************************)
(* The options the build passes to each script.                            *)
(***************************************************************************)
compile_dir == <<"flat">>
Rjava_dir == <<"rjava">>
resources_output == <<"res", "res.apk">>
class_dir == <<"classes">>
dex_dir == <<"dex">>
resource_apk == <<"res", "res.apk">>
javac_output == <<"unsigned", "app.apk">>
apk == <<"res", "res.apk">>
dex == <<"dex", "classes.dex">>
unsigned_apk == <<"unsigned", "app.apk">>
signer_output == <<"signed", "app.apk">>

Scripts == {"process_resources", "javac", "signer", "find"}

\* The --output path of a script (find.py has none).
Output(s) ==
  CASE s = "process_resources" -> resources_output
    [] s = "javac"             -> javac_output
    [] s = "signer"            -> signer_output
    [] OTHER                   -> Root

\* What varies between two invocations of a script: whether signer.py gets
\* --dex and --build-tools-dir, and find.py's paths and --pattern.
NoArg == PathList(<<>>)
FixedOptions ==
  [dex |-> FALSE, build_tools |-> TRUE, path |-> NoArg, pattern |-> PatAll]
FindPaths ==
  { PathList(<< <<"rjava">> >>),
    PathList(<< <<"flat">>, <<"classes">> >>),
    PathList(<< <<"rjava">>, <<"rjava", "com">> >>),
    PathList(<< <<"dex", "classes.dex">> >>) }
Options(s) ==
  CASE s = "signer" ->
         { [FixedOptions EXCEPT !.dex = d, !.build_tools = b] :
             d \in BOOLEAN, b \in BOOLEAN }
    [] s = "find" ->
         { [FixedOptions EXCEPT !.path = a, !.pattern = pt] :
             a \in FindPaths, pt \in {PatAll, PatRjava} }
    [] OTHER -> { FixedOptions }

(***************************************************************************)
(* External tools.  A command is what subprocess.run is given: the tool,   *)
(* whether check=True, the file list appended to the command line, the     *)
(* directories the tool is told to write into, and for zip and apksigner   *)
(* the archive they rewrite.                                               *)
(***************************************************************************)
NoCmd ==
  [tool |-> "none", check |-> FALSE, files |-> <<>>, outdirs |-> {},
   target |-> Root]

Cmd(tool, check, files, outdirs, target) ==
  [tool |-> tool, check |-> check, files |-> files, outdirs |-> outdirs,
   target |-> target]

\* The files a tool that exits 0 may have written.
ToolWrites(c) ==
  CASE c.tool = "aapt2 compile" ->
         { {<<"flat", "a.flat">>},
           {<<"flat", "a.flat">>, <<"flat", "v", "b.flat">>} }
    [] c.tool = "aapt2 link" ->
         { {resources_output, <<"rjava", "com", "R.java">>},
           {resources_output} }
    [] c.tool = "javac" ->
         { {<<"classes", "A.class">>},
           {<<"classes", "A.class">>, <<"classes", "p", "B.class">>} }
    [] c.tool = "d8" -> { {<<"dex", "classes.dex">>} }
    [] OTHER -> { {c.target} }

\* The content a tool leaves in a file it writes.
Written(f, c, p) ==
  CASE c.tool = "zip" ->
         FileEntry(f[p].data \cup (IF c.files = <<>> THEN {} ELSE {"dex"}))
    [] c.tool = "apksigner" -> FileEntry(f[p].data \cup {"sig"})
    [] c.tool = "aapt2 link" /\ p = resources_output -> FileEntry({"res"})
    [] OTHER -> FileEntry({})

\* The filesystem after the tool has written the files w, creating the
\* directories they lie in.
ToolEffect(f, c, w) ==
  [p \in Paths |->
     IF p \in w THEN Written(f, c, p)
     ELSE IF (\E q \in w : IsUnder(q, p)) /\ ~Exists(f, p) THEN DirEntry
     ELSE f[p]]

\* Fault: a subprocess.run that ignores check=True.
NeverRaises(check, rc) == FALSE

\* subprocess.run(cmd, check=True) raises CalledProcessError on a non-zero
\* exit status; without check it returns the CompletedProcess.
CheckRaises(check, rc) == check /\ rc # 0

\* bool(CompletedProcess): the class defines neither __bool__ nor __len__.
CompletedProcessTruthy(rc) == TRUE

\* The end of signer.main: "if not exit_status: return exit_status; return 0",
\* handed to sys.exit, which turns an object that is no integer into 1.
SignerExit(rc) == IF ~CompletedProcessTruthy(rc) THEN 1 ELSE 0

(***************************************************************************)
(* The state.                                                              *)
(***************************************************************************)
VARIABLES
  fs,        \* the filesystem: Paths -> [kind, data]
  run,       \* how many runs have been started
  script,    \* the script of the current run
  opts,      \* its options
  pc,        \* the stage function main is about to call, "idle" or "done"
  cmd,       \* the command of the subprocess main is blocked on, or NoCmd
  files,     \* the list find_files last returned to the script
  ensured,   \* the directories this run has called os.makedirs on
  trace,     \* the subprocesses of this run that have exited
  exit,      \* the exit status of the run, -1 while it is running
  err,       \* the exception that ended the run, "" when none did
  printed,   \* what find.py has printed
  start,     \* what the run found when it started
  prev,      \* the previous run
  clang,     \* a run of clang.py
  check,     \* a run of check_informational.py
  gen,       \* a run of generate_external_file.py
  lat,       \* input_latency_server.py and its socket
  tt         \* a run of test_time_calculation.py

vars ==
  <<fs, run, script, opts, pc, cmd, files, ensured, trace, exit, err, printed,
    start, prev, clang, check, gen, lat, tt>>

\* The scripts outside the build pipeline; each has a specification of its
\* own, and is switched off in the others.
others == <<clang, check, gen, lat, tt>>
Off == [pc |-> "off"]

NoPrev == [script |-> "none", opts |-> FixedOptions, exit |-> -1, tools |-> <<>>]

Tools(t) == [i \in 1..Len(t) |-> t[i].tool]

\* The filesystems a first run may find: with or without the inputs built
\* earlier, a stale R.java of another package, and old APKs.
Prebuilt ==
  { <<"res">>, resources_output, <<"dex">>, dex }
StaleRjava == { <<"rjava">>, <<"rjava", "org">>, <<"rjava", "org", "R.java">> }
StaleApks == { <<"unsigned">>, unsigned_apk, <<"signed">>, signer_output }

InitialEntry(p) ==
  IF Tokens(Name(p)) = <<Name(p)>> THEN DirEntry
  ELSE IF p = unsigned_apk THEN FileEntry({"res", "dex", "old"})
  ELSE IF p = signer_output THEN FileEntry({"res", "dex", "old", "sig"})
  ELSE IF p = resources_output THEN FileEntry({"res"})
  ELSE FileEntry({})

InitialFs ==
  { [p \in Paths |->
       IF p = Root THEN DirEntry
       ELSE IF p \in have THEN InitialEntry(p) ELSE NoEntry] :
    have \in { a \cup b \cup c : a \in {{}, Prebuilt}, b \in {{}, StaleRjava},
                                 c \in {{}, StaleApks} } }

Init ==
  /\ fs \in InitialFs
  /\ run = 0
  /\ script = "none"
  /\ opts = FixedOptions
  /\ pc = "idle"
  /\ cmd = NoCmd
  /\ files = <<>>
  /\ ensured = {}
  /\ trace = <<>>
  /\ exit = -1
  /\ err = ""
  /\ printed = <<>>
  /\ start = [output |-> FALSE, inputs |-> FALSE]
  /\ prev = NoPrev
  /\ clang = Off
  /\ check = Off
  /\ gen = Off
  /\ lat = Off
  /\ tt = Off

(***************************************************************************)
(* Control flow shared by the stages.                                      *)
(***************************************************************************)
\* The stage main calls first.
FirstStage(s, o) ==
  CASE s = "process_resources" -> "compile_resources"
    [] s = "javac"             -> "javac"
    [] s = "signer"            -> IF o.dex THEN "add_dex" ELSE "sign"
    [] OTHER                   -> "find_main"

\* The stage main calls after the given one has returned.
NextStage(stage) ==
  CASE stage = "compile_resources" -> "link_resources"
    [] stage = "link_resources"    -> "move_rjava"
    [] stage = "javac"             -> "d8"
    [] stage = "d8"                -> "add_dexes"
    [] stage = "add_dex"           -> "sign"
    [] OTHER                       -> "done"

\* An uncaught exception: the interpreter prints it and exits with status 1.
Raise(e) ==
  /\ pc' = "done"
  /\ cmd' = NoCmd
  /\ exit' = 1
  /\ err' = e

\* The stage has built its command and main blocks in subprocess.run.
Spawn(c) ==
  /\ cmd' = c
  /\ UNCHANGED <<pc, exit, err>>

AtStage(stage) == pc = stage /\ cmd = NoCmd

\* Whether the files the options name as inputs are there.
InputsPresent(f, s, o) ==
  CASE s = "javac"  -> IsFile(f, resource_apk)
    [] s = "signer" -> IF o.dex THEN IsFile(f, apk) /\ IsFile(f, dex)
                       ELSE IsFile(f, unsigned_apk)
    [] OTHER        -> TRUE

(***************************************************************************)
(* A run starts: the interpreter parses the options and enters main.       *)
(***************************************************************************)
StartRun(s, o) ==
  /\ pc \in {"idle", "done"}
  /\ run < MaxRuns
  /\ run' = run + 1
  /\ script' = s
  /\ opts' = o
  /\ pc' = FirstStage(s, o)
  /\ cmd' = NoCmd
  /\ files' = <<>>
  /\ ensured' = {}
  /\ trace' = <<>>
  /\ exit' = -1
  /\ err' = ""
  /\ printed' = <<>>
  /\ start' = [output |-> Exists(fs, Output(s)), inputs |-> InputsPresent(fs, s, o)]
  /\ prev' = IF pc = "idle" THEN NoPrev
             ELSE [script |-> script, opts |-> opts, exit |-> exit,
                   tools |-> Tools(trace)]
  /\ UNCHANGED fs
  /\ UNCHANGED others

(***************************************************************************)
(* process_resources.py                                                    *)
(***************************************************************************)
\* compile_resources, up to its subprocess.run.
CompileResources ==
  /\ AtStage("compile_resources")
  /\ IF MakedirsOk(fs, compile_dir)
       THEN /\ fs' = Makedirs(fs, compile_dir)
            /\ ensured' = ensured \cup {compile_dir}
            /\ Spawn(Cmd("aapt2 compile", TRUE, <<>>, {compile_dir}, Root))
       ELSE /\ Raise("FileExistsError")
            /\ UNCHANGED <<fs, ensured>>
  /\ UNCHANGED <<run, script, opts, files, trace, printed, start, prev>>
  /\ UNCHANGED others

\* main's search for the *.flat files, and link_resources up to its
\* subprocess.run.
LinkResources ==
  /\ AtStage("link_resources")
  /\ LET flat_files == find_files(fs, OnePath(compile_dir), PatFlat)
     IN  /\ files' = flat_files
         /\ Spawn(Cmd("aapt2 link", TRUE, flat_files,
                      {Rjava_dir, Parent(resources_output)}, resources_output))
  /\ UNCHANGED <<fs, run, script, opts, ensured, trace, printed, start, prev>>
  /\ UNCHANGED others

\* Fault: move_rjava without its test for several R.java.
RjavaCountNoMultiple(n) == IF n = 0 THEN "R.java not found." ELSE ""

\* move_rjava's two tests of the number of R.java files found: the message
\* of the exception it raises, "" when it raises none.
RjavaCount(n) ==
  IF n = 0 THEN "R.java not found."
  ELSE IF n > 1 THEN "There are multiple R.java."
  ELSE ""

\* Fault: move_rjava taking the first of several R.java.
MoveRjavaFirst(n) == n >= 1

\* Whether move_rjava goes on to shutil.move.
MoveRjavaAccepts(n) == RjavaCount(n) = ""

\* move_rjava, and main's return.
MoveRjava ==
  /\ AtStage("move_rjava")
  /\ LET rjava == find_files(fs, OnePath(Rjava_dir), PatRjava)
     IN  /\ files' = rjava
         /\ IF MoveRjavaAccepts(Len(rjava))
              THEN /\ fs' = ShutilMove(fs, rjava[1], Rjava_dir \o <<"R.java">>)
                   /\ pc' = "done"
                   /\ exit' = 0
                   /\ UNCHANGED <<cmd, err>>
              ELSE /\ Raise(RjavaCount(Len(rjava)))
                   /\ UNCHANGED fs
  /\ UNCHANGED <<run, script, opts, ensured, trace, printed, start, prev>>
  /\ UNCHANGED others

(***************************************************************************)
(* javac.py                                                                *)
(***************************************************************************)
\* javac, up to its subprocess.run.
Javac ==
  /\ AtStage("javac")
  /\ IF MakedirsOk(fs, class_dir)
       THEN /\ fs' = Makedirs(fs, class_dir)
            /\ ensured' = ensured \cup {class_dir}
            /\ Spawn(Cmd("javac", TRUE, <<>>, {class_dir}, Root))
       ELSE /\ Raise("FileExistsError")
            /\ UNCHANGED <<fs, ensured>>
  /\ UNCHANGED <<run, script, opts, files, trace, printed, start, prev>>
  /\ UNCHANGED others

\* main's search for the *.class files, and d8 up to its subprocess.run.
D8 ==
  /\ AtStage("d8")
  /\ LET classes == find_files(fs, OnePath(class_dir), PatClass)
     IN  /\ files' = classes
         /\ IF MakedirsOk(fs, dex_dir)
              THEN /\ fs' = Makedirs(fs, dex_dir)
                   /\ ensured' = ensured \cup {dex_dir}
                   /\ Spawn(Cmd("d8", TRUE, classes, {dex_dir}, Root))
              ELSE /\ Raise("FileExistsError")
                   /\ UNCHANGED <<fs, ensured>>
  /\ UNCHANGED <<run, script, opts, trace, printed, start, prev>>
  /\ UNCHANGED others

\* main's search for the *.dex files, and add_dexes up to its subprocess.run.
AddDexes ==
  /\ AtStage("add_dexes")
  /\ LET dexes == find_files(fs, OnePath(dex_dir), PatDex)
         made == Makedirs(fs, Parent(javac_output))
     IN  /\ files' = dexes
         /\ IF ~MakedirsOk(fs, Parent(javac_output))
              THEN /\ Raise("FileExistsError")
                   /\ UNCHANGED <<fs, ensured>>
            ELSE IF ~CopyOk(made, resource_apk, javac_output)
              THEN /\ Raise("FileNotFoundError")
                   /\ fs' = made
                   /\ ensured' = ensured \cup {Parent(javac_output)}
            ELSE /\ fs' = ShutilCopy(made, resource_apk, javac_output)
                 /\ ensured' = ensured \cup {Parent(javac_output)}
                 /\ Spawn(Cmd("zip", TRUE, dexes, {Parent(javac_output)},
                              javac_output))
  /\ UNCHANGED <<run, script, opts, trace, printed, start, prev>>
  /\ UNCHANGED others

(***************************************************************************)
(* signer.py                                                               *)
(***************************************************************************)
\* add_dex, up to its subprocess.run.
AddDex ==
  /\ AtStage("add_dex")
  /\ LET made == Makedirs(fs, Parent(unsigned_apk))
     IN  IF ~MakedirsOk(fs, Parent(unsigned_apk))
           THEN /\ Raise("FileExistsError")
                /\ UNCHANGED <<fs, ensured>>
         ELSE IF ~CopyOk(made, apk, unsigned_apk)
           THEN /\ Raise("FileNotFoundError")
                /\ fs' = made
                /\ ensured' = ensured \cup {Parent(unsigned_apk)}
         ELSE /\ fs' = ShutilCopy(made, apk, unsigned_apk)
              /\ ensured' = ensured \cup {Parent(unsigned_apk)}
              /\ Spawn(Cmd("zip", FALSE, <<dex>>, {Parent(unsigned_apk)},
                           unsigned_apk))
  /\ UNCHANGED <<run, script, opts, files, trace, printed, start, prev>>
  /\ UNCHANGED others

\* sign, up to its subprocess.run.  os.path.join(build_tools_dir, "apksigner")
\* raises TypeError when --build-tools-dir was not given: main passes the
\* option's None, which replaces the parameter's default of "".
Sign ==
  /\ AtStage("sign")
  /\ LET made == Makedirs(fs, Parent(signer_output))
     IN  IF ~MakedirsOk(fs, Parent(signer_output))
           THEN /\ Raise("FileExistsError")
                /\ UNCHANGED <<fs, ensured>>
         ELSE IF ~CopyOk(made, unsigned_apk, signer_output)
           THEN /\ Raise("FileNotFoundError")
                /\ fs' = made
                /\ ensured' = ensured \cup {Parent(signer_output)}
         ELSE IF ~opts.build_tools
           THEN /\ Raise("TypeError")
                /\ fs' = ShutilCopy(made, unsigned_apk, signer_output)
                /\ ensured' = ensured \cup {Parent(signer_output)}
         ELSE /\ fs' = ShutilCopy(made, unsigned_apk, signer_output)
              /\ ensured' = ensured \cup {Parent(signer_output)}
              /\ Spawn(Cmd("apksigner", FALSE, <<>>, {Parent(signer_output)},
                           signer_output))
  /\ UNCHANGED <<run, script, opts, files, trace, printed, start, prev>>
  /\ UNCHANGED others

(***************************************************************************)
(* find.py                                                                 *)
(***************************************************************************)
FindMain ==
  /\ AtStage("find_main")
  /\ printed' = find_files(fs, opts.path, opts.pattern)
  /\ pc' = "done"
  /\ exit' = 0
  /\ UNCHANGED <<fs, run, script, opts, cmd, files, ensured, trace, err,
                 start, prev>>
  /\ UNCHANGED others

(***************************************************************************)
(* The subprocess exits with status rc, having written w when rc is 0, and *)
(* subprocess.run returns or raises.  A stage returns to main when its     *)
(* subprocess.run does; main returns after its last stage.                 *)
(***************************************************************************)
SubprocessRun(rc, w) ==
  /\ cmd # NoCmd
  /\ fs' = IF rc = 0 THEN ToolEffect(fs, cmd, w) ELSE fs
  /\ trace' = Append(trace, [tool |-> cmd.tool, rc |-> rc, wrote |-> w])
  /\ cmd' = NoCmd
  /\ IF CheckRaises(cmd.check, rc)
       THEN /\ pc' = "done"
            /\ exit' = 1
            /\ err' = "CalledProcessError"
       ELSE /\ pc' = NextStage(pc)
            /\ exit' = IF NextStage(pc) # "done" THEN -1
                       ELSE IF script = "signer" THEN SignerExit(rc)
                       ELSE 0
            /\ err' = ""
  /\ UNCHANGED <<run, script, opts, files, ensured, printed, start, prev>>
  /\ UNCHANGED others

\* The tool's exit status and output are the environment's choice; a tool
\* that fails leaves the filesystem as it was.
ToolExits ==
  \E rc \in {0, 1} :
    \E w \in (IF rc = 0 THEN ToolWrites(cmd) ELSE {{}}) : SubprocessRun(rc, w)

Next ==
  \/ \E s \in Scripts : \E o \in Options(s) : StartRun(s, o)
  \/ CompileResources
  \/ LinkResources
  \/ MoveRjava
  \/ Javac
  \/ D8
  \/ AddDexes
  \/ AddDex
  \/ Sign
  \/ FindMain
  \/ ToolExits

Spec == Init /\ [][Next]_vars

(***************************************************************************)
(* Vocabulary of the properties.                                           *)
(***************************************************************************)
Running == cmd # NoCmd
Finished == pc = "done"
Failures == { i \in 1..Len(trace) : trace[i].rc # 0 }
Invoked(tool) ==
  { i \in 1..Len(trace) : trace[i].tool = tool }
Started(tool) == Invoked(tool) # {} \/ cmd.tool = tool

\* move_rjava has been called in this run: main returned through it or one
\* of its exceptions ended the run.
MoveRjavaRan ==
  /\ script = "process_resources"
  /\ Finished
  /\ \/ exit = 0
     \/ err \in {"R.java not found.", "There are multiple R.java."}

\* The steps this run has started, in the order it started them.
Steps ==
  Tools(trace)
    \o (IF Running THEN <<cmd.tool>> ELSE <<>>)
    \o (IF MoveRjavaRan THEN <<"move_rjava">> ELSE <<>>)

StepOrder(s) ==
  IF s = "javac" THEN <<"javac", "d8", "zip">>
  ELSE <<"aapt2 compile", "aapt2 link", "move_rjava">>

IsPrefix(a, b) == Len(a) <= Len(b) /\ a = SubSeq(b, 1, Len(a))

\* The regular files below one of the directories ds whose name matches pat.
FilesBelow(f, ds, pat) ==
  { p \in Paths :
      /\ IsFile(f, p)
      /\ Match(Tokens(Name(p)), pat)
      /\ \E d \in ds : IsUnder(p, d) }

(***************************************************************************)
(* C1: javac.py runs javac, d8, zip in this order and process_resources.py *)
(* runs aapt2 compile, aapt2 link, move_rjava in this order; a step starts *)
(* only after every earlier tool of the run has exited with status 0, so   *)
(* nothing follows a tool that exited non-zero.                            *)
(***************************************************************************)
C1_OrderedFailFast ==
  script \in {"javac", "process_resources"} =>
    /\ IsPrefix(Steps, StepOrder(script))
    /\ \A i \in 1..Len(trace) : i < Len(Steps) => trace[i].rc = 0
    /\ \A i \in Failures : i = Len(Steps) /\ Finished /\ exit # 0

C1_Witness ==
  /\ script = "javac"
  /\ Finished
  /\ Tools(trace) = <<"javac", "d8", "zip">>
  /\ Failures = {}

(***************************************************************************)
(* C2: signer.py ends with a non-zero exit status whenever zip or          *)
(* apksigner exited non-zero, and with 0 only when every tool exited 0.    *)
(***************************************************************************)
C2_SignerExitReflectsTools ==
  (script = "signer" /\ Finished) =>
    /\ Failures # {} => exit # 0
    /\ exit = 0 => Failures = {}

(***************************************************************************)
(* C3: with --dex, signer.py invokes apksigner only if the zip of add_dex  *)
(* exited with status 0.                                                   *)
(***************************************************************************)
C3_SignOnlyAfterZipOk ==
  (script = "signer" /\ opts.dex /\ Started("apksigner")) =>
    \E i \in Invoked("zip") : trace[i].rc = 0

(***************************************************************************)
(* C4: a run of javac.py or signer.py that starts with no file at --output *)
(* and in which a tool exits non-zero ends with no file at --output.       *)
(***************************************************************************)
C4_NoArtifactOnFailure ==
  (script \in {"javac", "signer"} /\ Finished /\ ~start.output
     /\ Failures # {}) =>
    ~Exists(fs, Output(script))

(***************************************************************************)
(* C5: when the inputs are there and every tool exits 0, signer.py invokes *)
(* apksigner exactly once on the file at --output, a copy of               *)
(* --unsigned-apk (the copy of --apk with the dex added, under --dex), and *)
(* ends with status 0 and the signed APK at --output.                      *)
(***************************************************************************)
C5_SignerSuccess ==
  (script = "signer" /\ Finished /\ start.inputs /\ Failures = {}) =>
    /\ Cardinality(Invoked("apksigner")) = 1
    /\ exit = 0
    /\ IsFile(fs, signer_output)
    /\ fs[signer_output].data = fs[unsigned_apk].data \cup {"sig"}
    /\ opts.dex => fs[unsigned_apk].data = fs[apk].data \cup {"dex"}

(***************************************************************************)
(* C6: move_rjava moves a file to <rjava_dir>/R.java only when exactly one *)
(* regular file named R.java lies below rjava_dir; with none or several it *)
(* raises and the filesystem stays as it was.                              *)
(***************************************************************************)
C6_MoveRjavaExactlyOne ==
  [][ AtStage("move_rjava") =>
        LET found == FilesBelow(fs, {Rjava_dir}, PatRjava)
            target == Rjava_dir \o <<"R.java">>
        IN  IF Cardinality(found) = 1
              THEN /\ exit' = 0
                   /\ IsFile(fs', target)
                   /\ FilesBelow(fs', {Rjava_dir}, PatRjava) = {target}
                   /\ \A p \in found : fs'[target] = fs[p]
              ELSE /\ fs' = fs
                   /\ exit' = 1
                   /\ err' = (IF found = {} THEN "R.java not found."
                              ELSE "There are multiple R.java.") ]_vars

C6_Witness ==
  /\ script = "process_resources"
  /\ Finished
  /\ exit = 0
  /\ <<"rjava", "com", "R.java">> \in trace[2].wrote
  /\ IsFile(fs, <<"rjava", "R.java">>)
  /\ ~Exists(fs, <<"rjava", "com", "R.java">>)

(***************************************************************************)
(* C7: a second run of the same script with the same options, on what a    *)
(* successful first run left behind, and whose tools all exit 0.           *)
(***************************************************************************)
SecondRun ==
  /\ script \in {"process_resources", "javac", "signer"}
  /\ Finished
  /\ prev.script = script
  /\ prev.opts = opts
  /\ prev.exit = 0
  /\ Failures = {}

RegeneratedRjava ==
  /\ script = "process_resources"
  /\ \E i \in Invoked("aapt2 link") :
       <<"rjava", "com", "R.java">> \in trace[i].wrote

\* C7 as claimed: the second run executes the same stages in the same order
\* and ends successfully with the artifact at --output.
C7_RerunSucceeds ==
  SecondRun =>
    /\ Tools(trace) = prev.tools
    /\ exit = 0
    /\ IsFile(fs, Output(script))

\* C7 as amended: so it is for javac.py and signer.py, and for
\* process_resources.py when aapt2 link writes no new R.java; when aapt2 link
\* writes R.java into the package directory again, the second
\* process_resources.py run executes aapt2 compile and aapt2 link as before
\* and ends in move_rjava's "There are multiple R.java." with status 1.
C7_RerunAmended ==
  SecondRun =>
    /\ Tools(trace) = prev.tools
    /\ IF RegeneratedRjava
         THEN exit = 1 /\ err = "There are multiple R.java."
         ELSE exit = 0 /\ IsFile(fs, Output(script))

C7_Witness ==
  /\ SecondRun
  /\ RegeneratedRjava
  /\ exit = 1

(***************************************************************************)
(* C8: within a run no tool invocation is issued twice, and once a tool    *)
(* has exited non-zero nothing that exists is deleted.                     *)
(***************************************************************************)
NoRepeat ==
  /\ \A i, j \in 1..Len(trace) : trace[i].tool = trace[j].tool => i = j
  /\ Invoked(cmd.tool) = {}

C8_NoRetryNoRollback ==
  [][ /\ NoRepeat'
      /\ Failures # {} => \A p \in Paths : Exists(fs, p) => Exists(fs', p)
    ]_vars

C8_Witness ==
  /\ script = "signer"
  /\ Finished
  /\ Tools(trace) = <<"zip", "apksigner">>
  /\ trace[1].rc # 0
  /\ IsFile(fs, unsigned_apk)

(***************************************************************************)
(* C9: find_files yields exactly the regular files at any depth below any  *)
(* of the given paths whose name matches the pattern, a single path        *)
(* behaves like the list holding it, and the lists handed to aapt2 link,   *)
(* d8 and zip are this result for the previous stage's output directory.   *)
(***************************************************************************)
C9_FindFilesExact ==
  /\ (script = "find" /\ Finished) =>
       Range(printed) = FilesBelow(fs, Range(opts.path.v), opts.pattern)
  /\ \A d \in {compile_dir, class_dir, dex_dir, Rjava_dir} :
       \A pat \in {PatAll, PatRjava} :
         /\ find_files(fs, OnePath(d), pat) = find_files(fs, PathList(<<d>>), pat)
         /\ Range(find_files(fs, OnePath(d), pat)) = FilesBelow(fs, {d}, pat)
  /\ cmd.tool = "aapt2 link" =>
       Range(cmd.files) = FilesBelow(fs, {compile_dir}, PatFlat)
  /\ cmd.tool = "d8" =>
       Range(cmd.files) = FilesBelow(fs, {class_dir}, PatClass)
  /\ (cmd.tool = "zip" /\ script = "javac") =>
       Range(cmd.files) = FilesBelow(fs, {dex_dir}, PatDex)

C9_Witness ==
  /\ script = "find"
  /\ Finished
  /\ opts.path = PathList(<< <<"rjava">>, <<"rjava", "com">> >>)
  /\ opts.pattern = PatAll
  /\ IsFile(fs, <<"rjava", "com", "R.java">>)
  /\ <<"rjava", "com">> \notin Range(printed)
  /\ <<"rjava", "com", "R.java">> \in Range(printed)

(***************************************************************************)
(* C10: a stage of process_resources.py or javac.py is invoked only after  *)
(* the script has made sure, in the same run, that the directories the     *)
(* tool writes into exist.                                                 *)
(***************************************************************************)
OutdirsEnsured ==
  /\ cmd.outdirs \subseteq ensured
  /\ \A d \in cmd.outdirs : IsDir(fs, d)

\* C10 as claimed: every stage, aapt2 link included, runs with its output
\* directories ensured by the script.
C10_EveryStageEnsured ==
  (script \in {"process_resources", "javac"} /\ Running) => OutdirsEnsured

\* C10 as amended: aapt2 compile, javac, d8 and zip run with their output
\* directories ensured by the script; link_resources calls no os.makedirs, so
\* aapt2 link runs with only what compile_resources ensured.
C10_EnsuredExceptLink ==
  (script \in {"process_resources", "javac"} /\ Running) =>
    IF cmd.tool = "aapt2 link" THEN ensured = {compile_dir}
    ELSE OutdirsEnsured

C10_Witness ==
  /\ script = "javac"
  /\ cmd.tool = "zip"
  /\ ~start.output
  /\ Parent(javac_output) \in ensured
  /\ IsDir(fs, Parent(javac_output))

(***************************************************************************)
(* The scripts outside the build pipeline.  While one of them runs, the    *)
(* pipeline is idle on an empty filesystem.                                *)
(***************************************************************************)
pipeline ==
  <<fs, run, script, opts, pc, cmd, files, ensured, trace, exit, err, printed,
    start, prev>>

PipelineOff ==
  /\ fs = [p \in Paths |-> IF p = Root THEN DirEntry ELSE NoEntry]
  /\ run = 0
  /\ script = "none"
  /\ opts = FixedOptions
  /\ pc = "idle"
  /\ cmd = NoCmd
  /\ files = <<>>
  /\ ensured = {}
  /\ trace = <<>>
  /\ exit = -1
  /\ err = ""
  /\ printed = <<>>
  /\ start = [output |-> FALSE, inputs |-> FALSE]
  /\ prev = NoPrev

\* The sequences over S of length at most n.
SeqsUpTo(S, n) == UNION { [1..k -> S] : k \in 0..n }

(***************************************************************************)
(* clang.py                                                                *)
(***************************************************************************)
MaxSources == 3

\* An option that was not given on the command line.
None == "None"

\* The command lines: --clang-bin and --unsigned-apk given or not, and the
\* C++ source files.
ClangArgs ==
  [clang_bin : {None, "ndk/bin"}, unsigned_apk : {None, "out/app.apk"},
   files : SeqsUpTo({"a.cpp", "b.cpp"}, MaxSources)]
\* The methods of argparse.ArgumentParser that parse a command line.
ParserMethods ==
  {"parse_args", "parse_known_args", "parse_intermixed_args",
   "parse_known_intermixed_args"}

\* The method main calls on the parser.
ParseCall == "parse"

\* clang_bin + "/clang++": a pathlib.Path, like None, has no + with a str.
ClangBinPlus(clang_bin) == "TypeError"

\* compile_so_file and package_so_object_into_apk: both bodies are `pass`;
\* what they have built or packaged.
compile_so_file(clang_bin) == None
package_so_object_into_apk(so_file, unsigned) == {}

ClangInit ==
  /\ PipelineOff
  /\ clang = [pc |-> "idle",
              argv |-> [clang_bin |-> None, unsigned_apk |-> None,
                        files |-> <<>>],
              err |-> "", exit |-> -1, spawned |-> <<>>, so_file |-> None,
              packaged |-> {}]
  /\ check = Off
  /\ gen = Off
  /\ lat = Off
  /\ tt = Off

\* The script is started on a command line.
ClangStart(a) ==
  /\ clang.pc = "idle"
  /\ clang' = [clang EXCEPT !.pc = "main", !.argv = a]
  /\ UNCHANGED <<pipeline, check, gen, lat, tt>>

\* main: the parser is asked for a method it does not have, which ends the
\* run; past it, compile_object_files raises on its first expression, before
\* any subprocess, and compile_so_file does nothing.
ClangMain ==
  /\ clang.pc = "main"
  /\ clang' =
       IF ParseCall \notin ParserMethods
       THEN [clang EXCEPT !.pc = "done", !.err = "AttributeError", !.exit = 1]
       ELSE IF ClangBinPlus(clang.argv.clang_bin) = "TypeError"
       THEN [clang EXCEPT !.pc = "done", !.err = "TypeError", !.exit = 1]
       ELSE [clang EXCEPT !.pc = "done", !.exit = 0,
                          !.spawned = <<[tool |-> "clang++", args |-> <<>>]>>,
                          !.so_file = compile_so_file(clang.argv.clang_bin)]
  /\ UNCHANGED <<pipeline, check, gen, lat, tt>>

ClangNext ==
  \/ \E a \in ClangArgs : ClangStart(a)
  \/ ClangMain

SpecClang == ClangInit /\ [][ClangNext]_vars

\* A command line with both options and at least one source file.
ClangValid(a) ==
  a.clang_bin # None /\ a.unsigned_apk # None /\ Len(a.files) >= 1

\* C11: a finished run of clang.py on a valid command line has invoked
\* clang++ on the given source files, built the shared object and packaged
\* it into the APK given by --unsigned-apk.
C11_CompilesAndPackages ==
  (clang.pc = "done" /\ ClangValid(clang.argv)) =>
    /\ clang.err = ""
    /\ \E i \in 1..Len(clang.spawned) :
         /\ clang.spawned[i].tool = "clang++"
         /\ clang.spawned[i].args = clang.argv.files
    /\ clang.so_file # None
    /\ clang.so_file \in clang.packaged

(***************************************************************************)
(* check_informational.py, in bin/ and in tools/                           *)
(***************************************************************************)
MaxChanges == 2

\* Paths relative to the repository root: the directories and the pieces of
\* the file name.
BundleDir ==
  <<"src", "chromiumos", "tast", "local", "bundles", "cros", "platform">>
GitPaths ==
  { [dir |-> BundleDir, name |-> <<"check_processes", ".", "go">>],
    [dir |-> BundleDir, name |-> <<"cpu", "_test", ".", "go">>],
    [dir |-> BundleDir, name |-> <<"doc", ".", "go">>],
    [dir |-> BundleDir, name |-> <<"README", ".", "md">>],
    [dir |-> <<"src", "chromiumos", "tast", "local", "chrome">>,
     name |-> <<"chrome", ".", "go">>] }

\* File contents, as the pieces of text they are made of.
Contents ==
  { <<"func">>,
    <<"Attr:", "\"", "informational", "\"">>,
    <<"//", "informational">>,
    <<"Attr:", "\"", "group:", "mainline", "\"">> }

\* needle in text
IsInfix(needle, text) ==
  \E i \in 0..(Len(text) - Len(needle)) :
    SubSeq(text, i + 1, i + Len(needle)) = needle

EndsWith(text, suffix) ==
  /\ Len(text) >= Len(suffix)
  /\ SubSeq(text, Len(text) - Len(suffix) + 1, Len(text)) = suffix

\* _TEST_FILE_RE.search(path)
TestFileRE(path) ==
  /\ Len(path.dir) = 7
  /\ SubSeq(path.dir, 1, 3) = <<"src", "chromiumos", "tast">>
  /\ path.dir[5] = "bundles"
  /\ Len(path.name) >= 3
  /\ EndsWith(path.name, <<".", "go">>)

\* What a commit does to the tree, in the order git diff-tree lists it: each
\* path with its status (A added, M modified) and its content at the commit.
Changes == [path : GitPaths, status : {"A", "M"}, content : Contents]
Commits ==
  { [known |-> TRUE, changes |-> c] :
      c \in { d \in SeqsUpTo(Changes, MaxChanges) :
                \A i, j \in 1..Len(d) : d[i].path = d[j].path => i = j } }
UnknownCommit == [known |-> FALSE, changes |-> <<>>]

\* Fault: git lists the modified files too.
NoDiffFilter == {"A", "M"}

\* --diff-filter=A
DiffFilter == {"A"}

RECURSIVE GetNewFiles(_)
\* _GetNewFiles: the paths git diff-tree prints, one a line.
GetNewFiles(changes) ==
  IF changes = <<>> THEN <<>>
  ELSE (IF Head(changes).status \in DiffFilter THEN <<Head(changes).path>>
        ELSE <<>>) \o GetNewFiles(Tail(changes))

\* _GetContent: git show commit:path
GetContent(changes, path) ==
  (CHOOSE c \in { changes[i] : i \in 1..Len(changes) } : c.path = path).content

\* Fault: the word is looked for without its quotes.
BareNeedle == <<"informational">>

\* '"informational"'
InformationalNeedle == <<"\"", "informational", "\"">>

\* The condition under which CheckCommit reads a file.
IsChecked(version, path) ==
  IF version = "bin" THEN TestFileRE(path)
  ELSE /\ TestFileRE(path)
       /\ ~EndsWith(path.name, <<"_test", ".", "go">>)
       /\ path.name # <<"doc", ".", "go">>

\* The condition under which CheckCommit reports a file it has read.
IsBad(version, content) ==
  IF version = "bin" THEN ~IsInfix(InformationalNeedle, content)
  ELSE /\ ~IsInfix(InformationalNeedle, content)
       /\ ~IsInfix(<<"\"", "group:">>, content)

RECURSIVE CheckLoop(_, _, _)
\* CheckCommit: the loop over the new files.
CheckLoop(version, changes, paths) ==
  IF paths = <<>> THEN <<>>
  ELSE (IF /\ IsChecked(version, Head(paths))
           /\ IsBad(version, GetContent(changes, Head(paths)))
        THEN <<Head(paths)>> ELSE <<>>)
       \o CheckLoop(version, changes, Tail(paths))

CheckCommit(version, commit) ==
  CheckLoop(version, commit.changes, GetNewFiles(commit.changes))

\* What main prints for a non-empty list.
Report(bad_files) == <<"header", "">> \o bad_files \o <<"", "See">>

CheckInit ==
  /\ PipelineOff
  /\ check = [pc |-> "idle", version |-> "bin", argv |-> <<>>,
              bad_files |-> <<>>, returned |-> FALSE, printed |-> <<>>,
              exit |-> -1, err |-> ""]
  /\ clang = Off
  /\ gen = Off
  /\ lat = Off
  /\ tt = Off

\* One of the two scripts is started; argv holds the arguments after the
\* program name: none, one commit, or one argument too many.
CheckStart ==
  /\ check.pc = "idle"
  /\ \E v \in {"bin", "tools"} :
       \E a \in {<<>>, <<UnknownCommit>>, <<UnknownCommit, UnknownCommit>>}
                \cup { <<c>> : c \in Commits } :
         check' = [check EXCEPT !.pc = "main", !.version = v, !.argv = a]
  /\ UNCHANGED <<pipeline, clang, gen, lat, tt>>

\* main up to the return of CheckCommit: the unpacking of argv raises unless
\* exactly one argument was given, and git fails on a commit it does not
\* know.
CheckMain ==
  /\ check.pc = "main"
  /\ check' =
       IF Len(check.argv) # 1
       THEN [check EXCEPT !.pc = "done", !.err = "ValueError", !.exit = 1]
       ELSE IF ~check.argv[1].known
       THEN [check EXCEPT !.pc = "done", !.err = "CalledProcessError",
                          !.exit = 1]
       ELSE [check EXCEPT !.pc = "report", !.returned = TRUE,
                          !.bad_files = CheckCommit(check.version,
                                                    check.argv[1])]
  /\ UNCHANGED <<pipeline, clang, gen, lat, tt>>

\* The rest of main: the report, and in tools/ sys.exit(1) after it.
CheckReport ==
  /\ check.pc = "report"
  /\ check' =
       IF check.bad_files = <<>>
       THEN [check EXCEPT !.pc = "done", !.exit = 0]
       ELSE [check EXCEPT !.pc = "done",
                          !.printed = Report(check.bad_files),
                          !.exit = IF check.version = "tools" THEN 1 ELSE 0]
  /\ UNCHANGED <<pipeline, clang, gen, lat, tt>>

CheckNext ==
  \/ CheckStart
  \/ CheckMain
  \/ CheckReport

SpecCheck == CheckInit /\ [][CheckNext]_vars

\* CheckCommit has returned to main.
CheckReturned == check.pc \in {"report", "done"} /\ check.returned
CheckChanges == check.argv[1].changes
ChangeSet == { CheckChanges[i] : i \in 1..Len(CheckChanges) }
PathsOf(changes) == [i \in 1..Len(changes) |-> changes[i].path]

\* A file the commit newly adds, whose path is a test file's and whose
\* content lacks "informational" with its quotes.
Offending(change) ==
  /\ change.status = "A"
  /\ TestFileRE(change.path)
  /\ ~IsInfix(<<"\"", "informational", "\"">>, change.content)

\* C12: the list CheckCommit of bin/check_informational.py returns is, in
\* the order git lists them, exactly the newly added files that match
\* _TEST_FILE_RE and whose content lacks "informational" with its quotes; it
\* is empty when there is no such file.
C12_CheckCommitExact ==
  (CheckReturned /\ check.version = "bin") =>
    check.bad_files = PathsOf(SelectSeq(CheckChanges, Offending))

\* CheckCommit of bin/ has returned two files in git's order, from a commit
\* that also adds a test file marked "informational".
C12_Witness ==
  /\ CheckReturned
  /\ check.version = "bin"
  /\ Len(CheckChanges) = 2
  /\ check.bad_files = <<CheckChanges[1].path>>
  /\ CheckChanges[2].status = "A"
  /\ TestFileRE(CheckChanges[2].path)
  /\ IsInfix(<<"\"", "informational", "\"">>, CheckChanges[2].content)

\* C13: CheckCommit, in bin/ and in tools/, never reports a file the commit
\* only modifies; a commit that only modifies files yields the empty list.
C13_ModifiedNeverReported ==
  CheckReturned =>
    /\ \A c \in ChangeSet :
         c.status = "M" => \A i \in 1..Len(check.bad_files) :
                             check.bad_files[i] # c.path
    /\ (\A c \in ChangeSet : c.status = "M") => check.bad_files = <<>>

\* The promotion commit: an existing test file is modified and no longer
\* holds "informational", and CheckCommit has returned the empty list.
C13_Witness ==
  /\ CheckReturned
  /\ Len(CheckChanges) = 1
  /\ CheckChanges[1].status = "M"
  /\ CheckChanges[1].path.name = <<"check_processes", ".", "go">>
  /\ CheckChanges[1].content = <<"func">>
  /\ check.bad_files = <<>>

\* C14: main of check_informational.py, in bin/ and in tools/, ends with a
\* non-zero exit status exactly when CheckCommit returned a non-empty list,
\* and with status 0 and nothing printed when the list is empty.
C14_ExitReflectsList ==
  (check.pc = "done" /\ check.returned) =>
    /\ check.exit # 0 <=> check.bad_files # <<>>
    /\ check.bad_files = <<>> => (check.exit = 0 /\ check.printed = <<>>)

(***************************************************************************)
(* generate_external_file.py                                               *)
(***************************************************************************)
MaxBlocks == 2

\* The number of bytes _get_sha256_digest reads at a time.
ReadSize == 1024

GCP_PREFIX == "chromiumos-test-assets-public/tast/cros"

\* The data files a command line may name, as the pieces of the path
\* relative to the current directory.
DataFiles == { <<"test_data", ".mp3">>, <<"data", "/", "clip", ".mp3">> }
Timestamps == {"20190101-000000", "20190102-120000"}

\* args.data_file + '.external'
External(data_file) == data_file \o <<".external">>

\* 'gs://{prefix}/{test_dir}/{data_file}_{timestamp}'.format(...)
Url(test_dir, data_file, timestamp) ==
  <<"gs://", GCP_PREFIX, "/", test_dir, "/">> \o data_file
    \o <<"_", timestamp>>

\* The sizes of a data file, around the size of a read.
DataSizes ==
  {0, 1} \cup { k * ReadSize + d : k \in 1..MaxBlocks, d \in {0, 1} }

\* The digest of the first n bytes of a file.
Sha256(n) == [hashed |-> n]

\* Fault: the file is read once.
Sha256Once(size, pos) ==
  IF pos >= size THEN pos
  ELSE IF size - pos < ReadSize THEN size ELSE pos + ReadSize

RECURSIVE Sha256Loop(_, _)
\* _get_sha256_digest: the loop of reads, from position pos; the number of
\* bytes sha256.update has been given when the read returns nothing.
Sha256Loop(size, pos) ==
  IF pos >= size THEN pos
  ELSE Sha256Loop(size, IF size - pos < ReadSize THEN size
                        ELSE pos + ReadSize)

get_sha256_digest(size) == Sha256(Sha256Loop(size, 0))

\* json.dump(link, outfile, sort_keys=True, indent=2): the keys with their
\* values, in sorted order.
KeyOrder == <<"sha256sum", "size", "url">>
JsonDump(link) ==
  [i \in 1..Len(KeyOrder) |-> <<KeyOrder[i], link[KeyOrder[i]]>>]

\* An .external file written by an earlier run.
OldExternal ==
  [kind |-> "file",
   content |-> JsonDump([url |-> <<"gs://", "old">>, size |-> 7,
                         sha256sum |-> Sha256(7)])]

NoFile == [kind |-> "none", content |-> <<>>]
Directory == [kind |-> "dir", content |-> <<>>]
DataFile(size) == [kind |-> "file", content |-> size]

\* The files of the current directory before the run.
GenFs ==
  { [p \in DataFiles \cup { External(d) : d \in DataFiles } |->
       IF p \in DataFiles THEN data[p]
       ELSE IF p \in old THEN OldExternal ELSE NoFile] :
    data \in [DataFiles -> {NoFile, Directory}
                             \cup { DataFile(n) : n \in DataSizes }],
    old \in SUBSET { External(d) : d \in DataFiles } }

\* What the user types at the prompt, a character at a time.
Answers ==
  { <<>>, <<"y">>, <<"Y">>, <<"y", "e", "s">>, <<"Y", "E", "S">>,
    <<"Y", "e", "s">>, <<"n">>, <<"N", "O">>, <<" ", "y">>,
    <<"y", "e", "a", "h">> }

LowerChar(c) ==
  CASE c = "Y" -> "y" [] c = "E" -> "e" [] c = "S" -> "s"
    [] c = "N" -> "n" [] c = "O" -> "o" [] OTHER -> c

\* ans.lower()
Lower(ans) == [i \in 1..Len(ans) |-> LowerChar(ans[i])]

\* Fault: every answer but a no is taken for a yes.
AcceptsUnlessNo(ans) == Lower(ans) \notin { <<"n">>, <<"n", "o">> }

\* not (ans.lower() not in ['y', 'yes'])
Accepts(ans) == Lower(ans) \in { <<"y">>, <<"y", "e", "s">> }

GenArgs == [data_file : DataFiles, test_dir : {"audio"}, upload : BOOLEAN]

GenIdle(f) ==
  [pc |-> "idle", fs |-> f, fs0 |-> f,
   args |-> [data_file |-> <<>>, test_dir |-> "", upload |-> FALSE],
   url |-> <<>>, link |-> <<>>, asked |-> FALSE, ans |-> <<>>,
   gsutil |-> <<>>, printed |-> <<>>, exit |-> -1, err |-> ""]

GenInit ==
  /\ PipelineOff
  /\ gen \in { GenIdle(f) : f \in GenFs }
  /\ clang = Off
  /\ check = Off
  /\ lat = Off
  /\ tt = Off

GenDone(g, status, e) == [g EXCEPT !.pc = "done", !.exit = status, !.err = e]
GenPrint(g, line) == [g EXCEPT !.printed = Append(@, line)]

\* main, lines 69-76: the command line is parsed and the url is built with
\* the time of the run.
GenStart(a, timestamp) ==
  /\ gen.pc = "idle"
  /\ gen' = [gen EXCEPT !.pc = "main", !.args = a,
                        !.url = Url(a.test_dir, a.data_file, timestamp)]
  /\ UNCHANGED <<pipeline, clang, check, lat, tt>>

\* main, lines 78-85: the data file is looked for, measured and hashed; a
\* directory exists and has a size, but cannot be opened.
GenLink ==
  /\ gen.pc = "main"
  /\ LET data == gen.fs[gen.args.data_file] IN
       gen' =
         IF data.kind = "none"
         THEN GenDone(GenPrint(gen, "No such file:"), 0, "")
         ELSE IF data.kind = "dir"
         THEN GenDone(gen, 1, "IsADirectoryError")
         ELSE [gen EXCEPT !.pc = "external",
                 !.link = [url |-> gen.url, size |-> data.content,
                           sha256sum |-> get_sha256_digest(data.content)]]
  /\ UNCHANGED <<pipeline, clang, check, lat, tt>>

\* main, lines 88-93: an existing .external makes the script prompt.
GenAsk ==
  /\ gen.pc = "external"
  /\ gen' =
       IF gen.fs[External(gen.args.data_file)].kind = "none"
       THEN [gen EXCEPT !.pc = "write"]
       ELSE [gen EXCEPT !.pc = "input", !.asked = TRUE]
  /\ UNCHANGED <<pipeline, clang, check, lat, tt>>

\* main, lines 92-96: input() returns the line typed, or raises at the end
\* of the input.
GenAnswer(eof, ans) ==
  /\ gen.pc = "input"
  /\ gen' =
       IF eof THEN GenDone(gen, 1, "EOFError")
       ELSE IF ~Accepts(ans)
       THEN GenDone(GenPrint([gen EXCEPT !.ans = ans], "Exiting"), 0, "")
       ELSE [gen EXCEPT !.pc = "write", !.ans = ans]
  /\ UNCHANGED <<pipeline, clang, check, lat, tt>>

\* main, lines 98-105: the link is written, and with --upload gsutil is
\* started.
GenWrite ==
  /\ gen.pc = "write"
  /\ LET written ==
           [gen EXCEPT !.fs[External(gen.args.data_file)] =
                         [kind |-> "file", content |-> JsonDump(gen.link)]]
     IN gen' =
          IF gen.args.upload
          THEN [GenPrint(written, "Uploading file...") EXCEPT !.pc = "upload"]
          ELSE GenDone(written, 0, "")
  /\ UNCHANGED <<pipeline, clang, check, lat, tt>>

\* main, lines 105-107: gsutil cp -n data_file url exits; its failure is
\* caught and reported.
GenGsutil(rc) ==
  /\ gen.pc = "upload"
  /\ LET called ==
           [gen EXCEPT !.gsutil =
              Append(@, [src |-> gen.args.data_file, dst |-> gen.url,
                         rc |-> rc])]
     IN gen' =
          IF rc = 0 THEN GenDone(called, 0, "")
          ELSE GenDone(GenPrint(called, "Failed to upload file"), 0, "")
  /\ UNCHANGED <<pipeline, clang, check, lat, tt>>

GenNext ==
  \/ \E a \in GenArgs : \E t \in Timestamps : GenStart(a, t)
  \/ GenLink
  \/ GenAsk
  \/ \E eof \in BOOLEAN : \E ans \in Answers : GenAnswer(eof, ans)
  \/ GenWrite
  \/ \E rc \in {0, 1} : GenGsutil(rc)

SpecGen == GenInit /\ [][GenNext]_vars

\* The data file and the .external file of the run, before and now.
GenData0 == gen.fs0[gen.args.data_file]
GenExt0 == gen.fs0[External(gen.args.data_file)]
GenExt == gen.fs[External(gen.args.data_file)]
GenRan == gen.pc = "done"
Keys(json) == { json[i][1] : i \in 1..Len(json) }
Value(json, key) ==
  (CHOOSE pair \in { json[i] : i \in 1..Len(json) } : pair[1] = key)[2]

\* C15: a run that found the data file and no <data_file>.external has
\* written <data_file>.external with exactly the keys url, size and
\* sha256sum, size and sha256sum being those of the data file; a run that
\* found no data file has written no .external file and has not uploaded.
C15_WritesLink ==
  GenRan =>
    /\ (GenData0.kind = "file" /\ GenExt0.kind = "none") =>
         /\ GenExt.kind = "file"
         /\ Len(GenExt.content) = 3
         /\ Keys(GenExt.content) = {"url", "size", "sha256sum"}
         /\ Value(GenExt.content, "size") = GenData0.content
         /\ Value(GenExt.content, "sha256sum") = Sha256(GenData0.content)
    /\ GenData0.kind = "none" => (gen.fs = gen.fs0 /\ gen.gsutil = <<>>)

\* A run has written the link of a data file longer than one read, beside
\* the data file in its directory.
C15_Witness ==
  /\ GenRan
  /\ GenData0.kind = "file"
  /\ GenData0.content > ReadSize
  /\ GenExt0.kind = "none"
  /\ GenExt.kind = "file"
  /\ gen.args.data_file[2] = "/"

\* The Google Cloud Storage path the usage text names.
UsagePath(test_dir, data_file) ==
  <<"gs://", "chromiumos-test-assets-public/tast/cros", "/", test_dir, "/">>
    \o data_file \o <<".external">>

\* C16: with --upload the data file is uploaded to the path
\* chromiumos-test-assets-public/tast/cros/<test_dir>/<data_file>.external
\* of the usage text; without --upload gsutil is never invoked.
C16_UploadsToUsagePath ==
  /\ \A i \in 1..Len(gen.gsutil) :
       /\ gen.gsutil[i].src = gen.args.data_file
       /\ gen.gsutil[i].dst = UsagePath(gen.args.test_dir, gen.args.data_file)
  /\ ~gen.args.upload => gen.gsutil = <<>>

UpperChar(c) ==
  CASE c = "y" -> "Y" [] c = "e" -> "E" [] c = "s" -> "S" [] OTHER -> c
SameWord(ans, word) ==
  /\ Len(ans) = Len(word)
  /\ \A i \in 1..Len(word) : ans[i] \in {word[i], UpperChar(word[i])}
SaidYes(ans) == SameWord(ans, <<"y">>) \/ SameWord(ans, <<"y", "e", "s">>)

\* C19: an existing <data_file>.external is overwritten only if the user
\* answered 'y' or 'yes' in any case; after any other answer the file is as
\* it was and nothing has been uploaded, even with --upload.
C19_OverwriteOnlyOnYes ==
  (gen.pc # "idle" /\ GenExt0.kind = "file") =>
    /\ GenExt # GenExt0 => (gen.asked /\ SaidYes(gen.ans))
    /\ (GenRan /\ gen.asked /\ ~SaidYes(gen.ans)) =>
         (GenExt = GenExt0 /\ gen.gsutil = <<>>)

\* With --upload, the user has declined with an answer that is neither y
\* nor yes, and the run has ended.
C19_Witness ==
  /\ GenRan
  /\ gen.asked
  /\ gen.ans = <<"y", "e", "a", "h">>
  /\ gen.args.upload
  /\ GenExt = OldExternal

(***************************************************************************)
(* crostini/data/input_latency_server.py                                   *)
(***************************************************************************)
MaxEvents == 3

\* The addresses datagrams come from, and what they carry.
Datagrams ==
  [data : {"ping", "exit", "", "pang"}, from : {"host:4000", "host:4001"}]

LatInit ==
  /\ PipelineOff
  /\ lat = [pc |-> "idle", server_addr |-> None, stdin |-> <<>>,
            eof |-> FALSE, sock |-> <<>>, arrived |-> 0, sent |-> <<>>,
            received |-> <<>>, handled |-> {}, printed |-> {}]
  /\ clang = Off
  /\ check = Off
  /\ gen = Off
  /\ tt = Off

\* sock.sendto(msg, server_addr); the datagram is kept with the number of
\* datagrams received before it was sent.
SendTo(l, msg) ==
  [l EXCEPT !.sent = Append(@, [msg |-> msg, to |-> l.server_addr,
                                n |-> Len(l.received)])]

\* Fault: the address of the first datagram is kept.
KeepFirstAddr(old, from) == IF old = None THEN from ELSE old

\* data, server_addr = sock.recvfrom(1024): the new value of server_addr.
UpdateAddr(old, from) == from

\* The branch of the loop body that handled an event has ended: whether it
\* sent a datagram is kept with the event.
Handled(before, after, kind, data) ==
  [after EXCEPT !.handled =
     @ \cup {[kind |-> kind, data |-> data,
              answered |-> Len(after.sent) > Len(before.sent)]}]

\* Loop, lines 24-31: stdin is readable, with a line or at its end.
HandleStdin(l) ==
  IF l.server_addr = None
  THEN Handled(l, [l EXCEPT !.printed = @ \cup {"Unknown server address"}],
               "key", "")
  ELSE IF l.stdin = <<>>
  THEN [SendTo(l, "keyEvent") EXCEPT !.pc = "done"]
  ELSE Handled(l, [SendTo(l, "keyEvent") EXCEPT !.stdin = Tail(@)],
               "key", Head(l.stdin))

\* Loop, lines 32-41: the socket is readable.
HandleSock(l) ==
  LET d == Head(l.sock)
      r == [l EXCEPT !.sock = Tail(@),
                     !.server_addr = UpdateAddr(@, d.from),
                     !.received = Append(@, d)]
  IN IF d.data = "ping" THEN Handled(l, SendTo(r, "pong"), "datagram", d.data)
     ELSE IF d.data = "" \/ d.data = "exit"
     THEN Handled(l, [SendTo(r, "exit") EXCEPT !.pc = "done"], "datagram",
                  d.data)
     ELSE Handled(l, [r EXCEPT !.printed = @ \cup {"Unrecognizable command"}],
                  "datagram", d.data)

StdinReadable(l) == l.stdin # <<>> \/ l.eof
SockReadable(l) == l.sock # <<>>

\* main, lines 45-54: the socket is bound and Loop is entered.
LatStart ==
  /\ lat.pc = "idle"
  /\ lat' = [lat EXCEPT !.pc = "loop"]
  /\ UNCHANGED <<pipeline, clang, check, gen, tt>>

\* A key is pressed: a line becomes readable on stdin.
LatKey ==
  /\ lat.pc # "done"
  /\ ~lat.eof
  /\ lat.arrived < MaxEvents
  /\ lat' = [lat EXCEPT !.stdin = Append(@, "key"), !.arrived = @ + 1]
  /\ UNCHANGED <<pipeline, clang, check, gen, tt>>

\* stdin is closed.
LatEof ==
  /\ lat.pc # "done"
  /\ ~lat.eof
  /\ lat' = [lat EXCEPT !.eof = TRUE]
  /\ UNCHANGED <<pipeline, clang, check, gen, tt>>

\* A datagram reaches the bound socket.
LatDatagram(d) ==
  /\ lat.pc = "loop"
  /\ lat.arrived < MaxEvents
  /\ lat' = [lat EXCEPT !.sock = Append(@, d), !.arrived = @ + 1]
  /\ UNCHANGED <<pipeline, clang, check, gen, tt>>

\* Loop, lines 20-41: one round of the while loop in which select found
\* something readable; stdin is handled before the socket, and a return
\* leaves the round.
LatLoop ==
  /\ lat.pc = "loop"
  /\ StdinReadable(lat) \/ SockReadable(lat)
  /\ LET afterStdin == IF StdinReadable(lat) THEN HandleStdin(lat) ELSE lat
     IN lat' = IF afterStdin.pc = "done" \/ ~SockReadable(lat)
               THEN afterStdin
               ELSE HandleSock(afterStdin)
  /\ UNCHANGED <<pipeline, clang, check, gen, tt>>

LatNext ==
  \/ LatStart
  \/ LatKey
  \/ LatEof
  \/ \E d \in Datagrams : LatDatagram(d)
  \/ LatLoop

SpecLatency == LatInit /\ [][LatNext]_vars

\* C17: every keyboard event and every datagram Loop has handled got a
\* response datagram while it was handled.
C17_EveryEventAnswered == \A e \in lat.handled : e.answered

Last(seq) == seq[Len(seq)]

\* C20: server_addr is unset before the first datagram and afterwards the
\* source address of the datagram received last, and every response was
\* sent to the address that was then the last datagram's.
C20_AddrIsLatestSource ==
  /\ lat.server_addr =
       IF lat.received = <<>> THEN None ELSE Last(lat.received).from
  /\ \A i \in 1..Len(lat.sent) :
       /\ lat.sent[i].n >= 1
       /\ lat.sent[i].to = lat.received[lat.sent[i].n].from

\* After datagrams from two addresses, a key event was answered to the
\* second.
C20_Witness ==
  /\ Len(lat.received) = 2
  /\ lat.received[1].from # lat.received[2].from
  /\ Len(lat.sent) >= 2
  /\ Last(lat.sent) = [msg |-> "keyEvent", to |-> lat.received[2].from, n |-> 2]

(***************************************************************************)
(* test_time_calculation.py                                                *)
(***************************************************************************)
MaxLines == 2

\* Test names, as the pieces of text they are made of.
TestNames ==
  { <<"policy.Foo">>, <<"policy.Foo", ".", "param">>,
    <<"policy.Foo", "Bar">>, <<"ui.Baz">> }

\* The times tast prints, 0.00s or 0m0.00s, with their value in hundredths
\* of a second.
Times ==
  { [text |-> <<"0.50", "s">>, centis |-> 50],
    [text |-> <<"2.50", "s">>, centis |-> 250],
    [text |-> <<"1", "m", "2.50", "s">>, centis |-> 6250] }

\* float(s), in hundredths; -1 stands for ValueError.
Float(part) ==
  IF part = <<"0.50">> THEN 50
  ELSE IF part = <<"2.50">> THEN 250
  ELSE IF part = <<"1">> THEN 100
  ELSE -1

\* What the log holds: a completed run of a test with its time, or the
\* start of a test.
LogEntries ==
  [kind : {"Completed"}, name : TestNames, time : Times]
  \cup { [kind |-> "Started", name |-> <<"policy.Foo">>,
          time |-> CHOOSE t \in Times : t.centis = 50] }

\* The text of a line of the log, spaces and the newline included.
Line(entry) ==
  IF entry.kind = "Completed"
  THEN <<"12:00:00", " ", "Completed", " ", "test", " ">> \o entry.name
         \o <<" ", "in", " ">> \o entry.time.text
         \o <<" ", "with", " ", "0", " ", "error(s)", "\n">>
  ELSE <<"12:00:00", " ", "Started", " ", "test", " ">> \o entry.name
         \o <<"\n">>

RECURSIVE SplitOn(_, _, _)
\* str.split(sep) of the text from its first piece on, cur being the part
\* read so far.
SplitOn(text, seps, cur) ==
  IF text = <<>> THEN <<cur>>
  ELSE IF Head(text) \in seps THEN <<cur>> \o SplitOn(Tail(text), seps, <<>>)
  ELSE SplitOn(Tail(text), seps, Append(cur, Head(text)))

\* words.index(w), 0 standing for ValueError.
Index(words, w) ==
  IF \E i \in 1..Len(words) : words[i] = w
  THEN CHOOSE i \in 1..Len(words) :
         words[i] = w /\ \A j \in 1..(i - 1) : words[j] # w
  ELSE 0

\* _time_from_log_line, in hundredths of a second; -1 stands for an
\* exception.
time_from_log_line(line) ==
  LET words == SelectSeq(SplitOn(line, {" ", "\n"}, <<>>),
                         LAMBDA w : w # <<>>)
      at == Index(words, <<"in">>)
  IN IF at = 0 \/ at + 1 > Len(words) THEN -1
     ELSE LET word == words[at + 1]
              test_time == SubSeq(word, 1, Len(word) - 1)
              test_time_m_s == SplitOn(test_time, {"m"}, <<>>)
              minutes == IF Len(test_time_m_s) > 1
                         THEN Float(test_time_m_s[1]) ELSE 0
              seconds == Float(test_time_m_s[IF Len(test_time_m_s) > 1
                                             THEN 2 ELSE 1])
          IN IF minutes = -1 \/ seconds = -1 THEN -1
             ELSE 60 * minutes + seconds

\* "Completed test "+args.test_name
Needle(test_name) == <<"Completed", " ", "test", " ">> \o test_name

TtInit ==
  /\ PipelineOff
  /\ tt = [pc |-> "idle", test_name |-> <<>>, log |-> <<>>, i |-> 1,
           n_runs |-> 0, total_time |-> 0, max_time |-> 0, avg_time |-> <<>>,
           printed |-> <<>>, exit |-> -1, err |-> ""]
  /\ clang = Off
  /\ check = Off
  /\ gen = Off
  /\ lat = Off

\* main, lines 62-68: the command line is parsed and the log is opened;
\* without --test_name the name is ''.
TtStart ==
  /\ tt.pc = "idle"
  /\ \E test_name \in {<<>>} \cup TestNames :
       \E log \in SeqsUpTo(LogEntries, MaxLines) :
         tt' = [tt EXCEPT !.pc = "loop", !.test_name = test_name,
                          !.log = log]
  /\ UNCHANGED <<pipeline, clang, check, gen, lat>>

\* main, lines 69-77: one line of the log.
TtLine ==
  /\ tt.pc = "loop"
  /\ tt.i <= Len(tt.log)
  /\ LET line == Line(tt.log[tt.i])
         test_time == time_from_log_line(line)
     IN tt' =
          IF ~IsInfix(Needle(tt.test_name), line)
          THEN [tt EXCEPT !.i = @ + 1]
          ELSE IF test_time = -1
          THEN [tt EXCEPT !.pc = "done", !.exit = 1, !.err = "ValueError",
                          !.printed = Append(@, line)]
          ELSE [tt EXCEPT !.i = @ + 1,
                          !.n_runs = @ + 1,
                          !.total_time = @ + test_time,
                          !.max_time = IF test_time > @ THEN test_time ELSE @,
                          !.printed = @ \o <<line, <<"Test run", tt.n_runs + 1,
                                                     test_time>>>>]
  /\ UNCHANGED <<pipeline, clang, check, gen, lat>>

\* main, lines 79-81: the average, a division that raises when no line
\* matched, and the summary; avg_time is kept as the fraction.
TtSummary ==
  /\ tt.pc = "loop"
  /\ tt.i > Len(tt.log)
  /\ tt' =
       IF tt.n_runs = 0
       THEN [tt EXCEPT !.pc = "done", !.exit = 1, !.err = "ZeroDivisionError"]
       ELSE [tt EXCEPT !.pc = "done", !.exit = 0,
                       !.avg_time = <<tt.total_time, tt.n_runs>>,
                       !.printed = Append(@, <<"Resulting time", tt.n_runs,
                                               tt.total_time,
                                               <<tt.total_time, tt.n_runs>>,
                                               tt.max_time>>)]
  /\ UNCHANGED <<pipeline, clang, check, gen, lat>>

TtNext ==
  \/ TtStart
  \/ TtLine
  \/ TtSummary

SpecTime == TtInit /\ [][TtNext]_vars

\* The lines of the log read so far that report a completed run of exactly
\* the test named.
RunsOf(name) ==
  { j \in 1..(tt.i - 1) :
      tt.log[j].kind = "Completed" /\ tt.log[j].name = name }
RECURSIVE SumTimes(_)
SumTimes(js) ==
  IF js = {} THEN 0
  ELSE LET j == CHOOSE k \in js : TRUE
       IN tt.log[j].time.centis + SumTimes(js \ {j})
MaxTime(js) ==
  IF js = {} THEN 0
  ELSE LET j == CHOOSE k \in js : \A m \in js :
                  tt.log[m].time.centis <= tt.log[k].time.centis
       IN tt.log[j].time.centis

\* C18: with --test_name given, only the 'Completed test' lines of the test
\* of exactly that name are counted: the run count, the total and the
\* maximum are those of these lines, and the average is their quotient.
C18_CountsOnlyNamedTest ==
  (tt.pc # "idle" /\ tt.test_name # <<>> /\ tt.err = "") =>
    /\ tt.n_runs = Cardinality(RunsOf(tt.test_name))
    /\ tt.total_time = SumTimes(RunsOf(tt.test_name))
    /\ tt.max_time = MaxTime(RunsOf(tt.test_name))
    /\ tt.pc = "done" => tt.avg_time = <<tt.total_time, tt.n_runs>>

\* The lines of the log that match: those reporting a completed run of a
\* test whose name begins with the name given (every test when none is).
Matching ==
  { j \in 1..Len(tt.log) :
      tt.log[j].kind = "Completed" /\ IsPrefix(tt.test_name, tt.log[j].name) }

\* C21: main ends without error on every log, one without a matching line
\* included, and reports n_runs as the number of matching lines, total as
\* the sum of their times, max as the largest and avg as total / n_runs.
C21_CompletesWithStatistics ==
  tt.pc = "done" =>
    /\ tt.err = ""
    /\ tt.exit = 0
    /\ tt.n_runs = Cardinality(Matching)
    /\ tt.total_time = SumTimes(Matching)
    /\ tt.max_time = MaxTime(Matching)
    /\ tt.avg_time = <<tt.total_time, tt.n_runs>>

====
